---------------------------- MODULE Spec2Model ----------------------------
(***************************************************************************)
(* Model of src/app.py: the two-phase VRPTW solver.                        *)
(*   - agrupar_clientes   (sweep clustering)        -> SpecSweep            *)
(*   - evaluar_ruta       (route evaluator)         -> SpecEval             *)
(*   - algoritmo_genetico (generational driver and  -> SpecGA               *)
(*     its operators)                                                       *)
(* Each function is a state machine over its local variables; `pc` is the  *)
(* position in the function being run.  The variables of the functions     *)
(* that a specification does not run keep their idle values.               *)
(*                                                                         *)
(* Numbers: every coordinate and time of the model is an integer and the   *)
(* customers sit on the corners of a 6 x 8 rectangle centred on the depot, *)
(* so every Euclidean distance the program computes (5, 6, 8, 10, 0) is an *)
(* exact integer and the float arithmetic of the program is exact.         *)
(***************************************************************************)
EXTENDS Integers, Sequences, FiniteSets

VARIABLES
    pc,                 \* position in the function being run
    \* agrupar_clientes
    clientes,           \* parameter: the list of customers
    capacidad_vehiculo, \* parameter
    clientes_ordenados, \* the sorted list
    por_agrupar,        \* the part of clientes_ordenados the for loop has not visited
    grupos,
    grupo_actual,
    capacidad_actual,
    \* evaluar_ruta
    ruta,               \* parameter: the route
    por_visitar,        \* the part of ruta the for loop has not visited
    distancia_total,
    tiempo_actual,
    penalizacion,
    detalles,
    punto_anterior,
    fitness,
    \* algoritmo_genetico
    grupo,              \* parameter `clientes`: the cluster, as customer ids
    poblacion,
    fitnesses,
    mejor_individuo,
    mejor_fitness,
    gen,
    nueva_poblacion,
    padre1,
    padre2,
    cortes,             \* <<inicio, fin>> of the last cruce_ordenado
    hijo,
    min_evaluado        \* history: least fitness evaluated in any generation so far

varsSweep == <<clientes, capacidad_vehiculo, clientes_ordenados, por_agrupar,
               grupos, grupo_actual, capacidad_actual>>
varsEval  == <<ruta, por_visitar, distancia_total, tiempo_actual, penalizacion,
               detalles, punto_anterior, fitness>>
varsGA    == <<grupo, poblacion, fitnesses, mejor_individuo, mejor_fitness, gen,
               nueva_poblacion, padre1, padre2, cortes, hijo, min_evaluado>>
vars      == <<pc, varsSweep, varsEval, varsGA>>

----------------------------------------------------------------------------
(* Bounds of the model *)

NumClientes  == 3   \* customers in the input of agrupar_clientes: 0..NumClientes
MaxDemanda   == 3   \* demands range over 1..MaxDemanda
MaxCapacidad == 3   \* vehicle capacities range over 1..MaxCapacidad
MaxRuta      == 2   \* stops of a route given to evaluar_ruta: 0..MaxRuta
MaxGrupo     == 3   \* customers of the cluster given to algoritmo_genetico: 0..MaxGrupo
TamPoblacion == 3   \* tamano_poblacion
Generaciones == 2   \* generaciones

(* Program constants *)

TamTorneo      == 3     \* tamano_torneo
FactorPenal    == 1000  \* penalty per minute of lateness
DepositoInicio == 480   \* deposito.ventana_inicio
TasaCruce      == 80    \* tasa_cruce = 0.8, in hundredths
TasaMutacion   == 10    \* tasa_mutacion = 0.1, in hundredths
Inf            == -1    \* float('inf'): no fitness is negative

\* random.random() lies in [0, 1): the draws of the model, in hundredths.
Azar == {5, 50, 95}

----------------------------------------------------------------------------
(* Sequences *)

Rango(s) == {s[k] : k \in DOMAIN s}

RECURSIVE Suma(_)
Suma(s) == IF s = <<>> THEN 0 ELSE Head(s) + Suma(Tail(s))

RECURSIVE Aplanar(_)
Aplanar(ss) == IF ss = <<>> THEN <<>> ELSE Head(ss) \o Aplanar(Tail(ss))

Veces(x, s) == Cardinality({k \in DOMAIN s : s[k] = x})

\* The sequences of length n over S without a repeated element.
RECURSIVE SinRepetir(_, _)
SinRepetir(S, n) ==
    IF n = 0 THEN {<<>>}
    ELSE UNION {{Append(s, x) : x \in S \ Rango(s)} : s \in SinRepetir(S, n - 1)}

\* The orders random.shuffle can leave a list in.
Permutaciones(s) == {[k \in DOMAIN s |-> s[p[k]]] : p \in SinRepetir(DOMAIN s, Len(s))}

Minimo(s) == CHOOSE m \in Rango(s) : \A k \in DOMAIN s : m <= s[k]

----------------------------------------------------------------------------
(* Cliente, Deposito, distancia *)

\* The four sites of the model, one per quadrant; site k of customer id.
SitioX(k) == IF k % 4 \in {0, 1} THEN 3 ELSE -3
SitioY(k) == IF k % 4 \in {1, 2} THEN 4 ELSE -4

Deposito == [x |-> 0, y |-> 0, ventana_inicio |-> DepositoInicio]

\* math.sqrt on the perfect squares the model's sites produce.
Raiz(n) == CHOOSE r \in 0..n : r * r = n

distancia(punto1, punto2) ==
    Raiz((punto1.x - punto2.x) * (punto1.x - punto2.x)
         + (punto1.y - punto2.y) * (punto1.y - punto2.y))

\* The order of math.atan2(y, x) in (-pi, pi], decided exactly on integers:
\* the lower half plane first, then angle 0, the upper half plane, angle pi.
Semiplano(c) ==
    IF c.y < 0 THEN 0
    ELSE IF c.y > 0 THEN 2
    ELSE IF c.x >= 0 THEN 1 ELSE 3

AnguloMenor(a, b) ==
    \/ Semiplano(a) < Semiplano(b)
    \/ /\ Semiplano(a) = Semiplano(b)
       /\ Semiplano(a) \in {0, 2}
       /\ a.x * b.y - a.y * b.x > 0

----------------------------------------------------------------------------
(* Fase 1: agrupar_clientes *)

\* sorted(..., key=angulo): a stable sort, as insertion after the last
\* element that is not greater.
RECURSIVE Insertar(_, _)
Insertar(s, c) ==
    IF s = <<>> THEN <<c>>
    ELSE IF AnguloMenor(c, s[Len(s)])
         THEN Append(Insertar(SubSeq(s, 1, Len(s) - 1), c), s[Len(s)])
         ELSE Append(s, c)

RECURSIVE OrdenarPorAngulo(_)
OrdenarPorAngulo(s) ==
    IF s = <<>> THEN <<>>
    ELSE Insertar(OrdenarPorAngulo(SubSeq(s, 1, Len(s) - 1)), s[Len(s)])

ClienteSweep(i, d) == [id |-> i, x |-> SitioX(i), y |-> SitioY(i), demanda |-> d]

\* The inputs: any order of any subset of the customers, any demands.
EntradasSweep ==
    UNION {{[k \in 1..n |-> ClienteSweep(ids[k], dem[k])] :
              ids \in SinRepetir(1..NumClientes, n), dem \in [1..n -> 1..MaxDemanda]}
           : n \in 0..NumClientes}

Cabe_SinAcumular(acumulado, cliente, capacidad) ==
    cliente.demanda <= capacidad

\* line 61
Cabe(acumulado, cliente, capacidad) ==
    acumulado + cliente.demanda <= capacidad

\* lines 56-59
Ordenar ==
    /\ pc = "sweep_inicio"
    /\ clientes_ordenados' = OrdenarPorAngulo(clientes)
    /\ por_agrupar' = clientes_ordenados'
    /\ grupos' = <<>>
    /\ grupo_actual' = <<>>
    /\ capacidad_actual' = 0
    /\ pc' = "sweep_bucle"
    /\ UNCHANGED <<clientes, capacidad_vehiculo, varsEval, varsGA>>

\* lines 60-63
AgregarAlGrupo ==
    /\ pc = "sweep_bucle"
    /\ por_agrupar /= <<>>
    /\ Cabe(capacidad_actual, Head(por_agrupar), capacidad_vehiculo)
    /\ grupo_actual' = Append(grupo_actual, Head(por_agrupar))
    /\ capacidad_actual' = capacidad_actual + Head(por_agrupar).demanda
    /\ por_agrupar' = Tail(por_agrupar)
    /\ UNCHANGED <<pc, clientes, capacidad_vehiculo, clientes_ordenados, grupos,
                   varsEval, varsGA>>

CerrarGrupo_PierdeCliente ==
    /\ pc = "sweep_bucle"
    /\ por_agrupar /= <<>>
    /\ ~Cabe(capacidad_actual, Head(por_agrupar), capacidad_vehiculo)
    /\ grupos' = Append(grupos, grupo_actual)
    /\ grupo_actual' = <<>>
    /\ capacidad_actual' = 0
    /\ por_agrupar' = Tail(por_agrupar)
    /\ UNCHANGED <<pc, clientes, capacidad_vehiculo, clientes_ordenados,
                   varsEval, varsGA>>

\* lines 60, 64-67
CerrarGrupo ==
    /\ pc = "sweep_bucle"
    /\ por_agrupar /= <<>>
    /\ ~Cabe(capacidad_actual, Head(por_agrupar), capacidad_vehiculo)
    /\ grupos' = Append(grupos, grupo_actual)
    /\ grupo_actual' = <<Head(por_agrupar)>>
    /\ capacidad_actual' = Head(por_agrupar).demanda
    /\ por_agrupar' = Tail(por_agrupar)
    /\ UNCHANGED <<pc, clientes, capacidad_vehiculo, clientes_ordenados,
                   varsEval, varsGA>>

\* lines 68-70, grupo_actual non-empty
EmitirUltimoGrupo ==
    /\ pc = "sweep_bucle"
    /\ por_agrupar = <<>>
    /\ grupo_actual /= <<>>
    /\ grupos' = Append(grupos, grupo_actual)
    /\ pc' = "sweep_fin"
    /\ UNCHANGED <<clientes, capacidad_vehiculo, clientes_ordenados, por_agrupar,
                   grupo_actual, capacidad_actual, varsEval, varsGA>>

\* lines 68, 70, grupo_actual empty
DevolverSinUltimo ==
    /\ pc = "sweep_bucle"
    /\ por_agrupar = <<>>
    /\ grupo_actual = <<>>
    /\ pc' = "sweep_fin"
    /\ UNCHANGED <<varsSweep, varsEval, varsGA>>

----------------------------------------------------------------------------
(* evaluar_ruta *)

VentanasInicio == {480, 490, 500}
VentanasFin    == {483, 495, 510}

\* A stop of a route: a site and a time window.  The inputs hold windows with
\* ventana_inicio > ventana_fin too: the program does not validate them.
ParadasEval ==
    {[x |-> SitioX(k), y |-> SitioY(k), ventana_inicio |-> vi, ventana_fin |-> vf] :
        k \in 1..4, vi \in VentanasInicio, vf \in VentanasFin}

RutasEval == UNION {[1..n -> ParadasEval] : n \in 0..MaxRuta}

Espera_SinAjuste(tiempo_llegada, cliente) ==
    IF tiempo_llegada < cliente.ventana_inicio
    THEN [espera |-> cliente.ventana_inicio - tiempo_llegada, llegada |-> tiempo_llegada]
    ELSE [espera |-> 0, llegada |-> tiempo_llegada]

\* lines 97-102: the wait and the arrival after it
Espera(tiempo_llegada, cliente) ==
    IF tiempo_llegada < cliente.ventana_inicio
    THEN [espera |-> cliente.ventana_inicio - tiempo_llegada,
          llegada |-> cliente.ventana_inicio]
    ELSE [espera |-> 0, llegada |-> tiempo_llegada]

Penalizacion_DesdeInicio(tiempo_llegada, cliente) ==
    IF tiempo_llegada > cliente.ventana_inicio
    THEN (tiempo_llegada - cliente.ventana_inicio) * FactorPenal
    ELSE 0

\* lines 105-106: tiempo_llegada is the arrival after the wait
Penalizacion(tiempo_llegada, cliente) ==
    IF tiempo_llegada > cliente.ventana_fin
    THEN (tiempo_llegada - cliente.ventana_fin) * FactorPenal
    ELSE 0

\* lines 87-91
EstadoInicial(deposito) ==
    [distancia_total |-> 0,
     tiempo_actual   |-> deposito.ventana_inicio,
     penalizacion    |-> 0,
     detalles        |-> <<>>,
     punto_anterior  |-> deposito]

\* lines 94-111: one iteration of the loop
PasoCliente(st, cliente) ==
    LET d   == distancia(st.punto_anterior, cliente)
        e   == Espera(st.tiempo_actual + d, cliente)
    IN  [distancia_total |-> st.distancia_total + d,
         tiempo_actual   |-> e.llegada,
         penalizacion    |-> st.penalizacion + Penalizacion(e.llegada, cliente),
         detalles        |-> Append(st.detalles, <<cliente, e.llegada, e.espera>>),
         punto_anterior  |-> cliente]

\* lines 114-121
Regreso(st, deposito) ==
    LET d == distancia(st.punto_anterior, deposito)
    IN  [fitness         |-> st.distancia_total + d + st.penalizacion,
         distancia_total |-> st.distancia_total + d,
         penalizacion    |-> st.penalizacion,
         tiempo_actual   |-> st.tiempo_actual + d,
         detalles        |-> Append(st.detalles, <<"Deposito", st.tiempo_actual + d, 0>>)]

RECURSIVE Recorrer(_, _)
Recorrer(st, r) ==
    IF r = <<>> THEN st ELSE Recorrer(PasoCliente(st, Head(r)), Tail(r))

\* evaluar_ruta as a function of the route
EvaluarRuta(r, deposito) == Regreso(Recorrer(EstadoInicial(deposito), r), deposito)

EstadoEval ==
    [distancia_total |-> distancia_total,
     tiempo_actual   |-> tiempo_actual,
     penalizacion    |-> penalizacion,
     detalles        |-> detalles,
     punto_anterior  |-> punto_anterior]

\* lines 87-91
IniciarEvaluacion ==
    /\ pc = "eval_inicio"
    /\ LET st == EstadoInicial(Deposito)
       IN  /\ distancia_total' = st.distancia_total
           /\ tiempo_actual' = st.tiempo_actual
           /\ penalizacion' = st.penalizacion
           /\ detalles' = st.detalles
           /\ punto_anterior' = st.punto_anterior
    /\ por_visitar' = ruta
    /\ pc' = "eval_bucle"
    /\ UNCHANGED <<ruta, fitness, varsSweep, varsGA>>

\* lines 93-111
VisitarCliente ==
    /\ pc = "eval_bucle"
    /\ por_visitar /= <<>>
    /\ LET st == PasoCliente(EstadoEval, Head(por_visitar))
       IN  /\ distancia_total' = st.distancia_total
           /\ tiempo_actual' = st.tiempo_actual
           /\ penalizacion' = st.penalizacion
           /\ detalles' = st.detalles
           /\ punto_anterior' = st.punto_anterior
    /\ por_visitar' = Tail(por_visitar)
    /\ UNCHANGED <<pc, ruta, fitness, varsSweep, varsGA>>

\* lines 113-121
RegresarAlDeposito ==
    /\ pc = "eval_bucle"
    /\ por_visitar = <<>>
    /\ LET res == Regreso(EstadoEval, Deposito)
       IN  /\ distancia_total' = res.distancia_total
           /\ tiempo_actual' = res.tiempo_actual
           /\ penalizacion' = res.penalizacion
           /\ detalles' = res.detalles
           /\ fitness' = res.fitness
    /\ pc' = "eval_fin"
    /\ UNCHANGED <<ruta, por_visitar, punto_anterior, varsSweep, varsGA>>

----------------------------------------------------------------------------
(* Algoritmo genetico: operators *)

\* The customers of the cluster being optimised, by id: site and time window.
VentanaInicioGA(i) == IF i % 4 = 2 THEN 490 ELSE IF i % 4 = 0 THEN 500 ELSE 480
VentanaFinGA(i)    == IF i % 4 = 3 THEN 495 ELSE 510

ClienteGA(i) ==
    [x |-> SitioX(i), y |-> SitioY(i),
     ventana_inicio |-> VentanaInicioGA(i), ventana_fin |-> VentanaFinGA(i)]

\* evaluar_ruta(ind, deposito)[0] for an individual given as customer ids
Fitness(ind) == EvaluarRuta([k \in DOMAIN ind |-> ClienteGA(ind[k])], Deposito).fitness

\* A Cliente object of a parent: the customer and the deepcopy call that
\* allocated the object.  Cliente defines no __eq__, so two objects are equal
\* only when they are the same object: same customer of the same copy.
\* The population holds customer ids: its objects are only read through
\* their fields (evaluar_ruta) or deep-copied (lines 140, 185), never compared.
None == [id |-> 0, copia |-> 0]

\* deepcopy(individuo), line 140
DeepCopy(ind, n) == [k \in DOMAIN ind |-> [id |-> ind[k], copia |-> n]]

Ids(ind) == [k \in DOMAIN ind |-> ind[k].id]

\* lines 138-139: every ordered sample of TamTorneo (individual, fitness)
\* pairs, sorted by fitness with a stable sort; the winner is the first of
\* the sample among those of least fitness.
Muestras(n) == SinRepetir(1..n, TamTorneo)

Ganador(muestra, fits) ==
    LET m == Minimo([k \in DOMAIN muestra |-> fits[muestra[k]]])
        j == CHOOSE j \in DOMAIN muestra :
                 /\ fits[muestra[j]] = m
                 /\ \A h \in 1..(j - 1) : fits[muestra[h]] /= m
    IN  muestra[j]

\* seleccion_por_torneo: the individuals it can return, before the deepcopy
SeleccionPorTorneo(pob, fits) ==
    {pob[Ganador(muestra, fits)] : muestra \in Muestras(Len(pob))}

\* line 149: sorted(random.sample(range(tamano), 2)), 0-based
Cortes(tamano) ==
    {<<i, f>> : i \in 0..(tamano - 1), f \in 0..(tamano - 1)} \ 
    {c \in (0..(tamano - 1)) \X (0..(tamano - 1)) : c[1] >= c[2]}

\* line 155: gen in hijo
Contiene(h, g) == \E k \in DOMAIN h : h[k] = g

\* lines 154-157: pos is 0-based
RECURSIVE Rellenar(_, _, _)
Rellenar(h, pos, resto) ==
    IF resto = <<>> THEN h
    ELSE IF ~Contiene(h, Head(resto))
         THEN Rellenar([h EXCEPT ![pos + 1] = Head(resto)], (pos + 1) % Len(h), Tail(resto))
         ELSE Rellenar(h, pos, Tail(resto))

\* lines 148, 150-158, for the cuts inicio <= fin drawn at line 149
CruceOrdenado(p1, p2, inicio, fin) ==
    LET tamano == Len(p1)
        segmento == [k \in 1..tamano |->
                        IF inicio + 1 <= k /\ k <= fin + 1 THEN p1[k] ELSE None]
    IN  Rellenar(segmento, (fin + 1) % tamano, p2)

Intercambiar_Pisa(ind, i, j) == [ind EXCEPT ![i + 1] = ind[j + 1]]

\* line 166, i and j 0-based
Intercambiar(ind, i, j) == [ind EXCEPT ![i + 1] = ind[j + 1], ![j + 1] = ind[i + 1]]

\* lines 164-166: what one iteration of the loop can leave
PasoMutacion(ind, i) ==
    {Intercambiar(ind, i, j) :
        j \in {j \in 0..(Len(ind) - 1) : \E r \in Azar : r < TasaMutacion}}
    \cup {x \in {ind} : \E r \in Azar : ~(r < TasaMutacion)}

RECURSIVE MutarDesde(_, _)
MutarDesde(ind, i) ==
    IF i >= Len(ind) THEN {ind}
    ELSE UNION {MutarDesde(x, i + 1) : x \in PasoMutacion(ind, i)}

\* mutacion_intercambio: the individuals it can return
MutacionIntercambio(ind) == MutarDesde(ind, 0)

\* a < b where b may be float('inf')
Menor(a, b) == a /= Inf /\ (b = Inf \/ a < b)

MinInf(a, b) == IF Menor(a, b) THEN a ELSE b

IndiceMejor_Primero(fits) == 1

\* line 181: fitnesses.index(min(fitnesses)), 1-based
IndiceMejor(fits) ==
    CHOOSE k \in DOMAIN fits :
        /\ fits[k] = Minimo(fits)
        /\ \A h \in 1..(k - 1) : fits[h] /= Minimo(fits)

Mejora_Siempre(fitness_actual, mejor) == TRUE

\* line 183
Mejora(fitness_actual, mejor) == Menor(fitness_actual, mejor)

----------------------------------------------------------------------------
(* algoritmo_genetico *)

\* lines 174-176 (crear_poblacion_inicial: lines 127-134)
CrearPoblacionInicial ==
    /\ pc = "ga_inicio"
    /\ poblacion' \in [1..TamPoblacion -> Permutaciones(grupo)]
    /\ mejor_individuo' = <<0>>
    /\ mejor_fitness' = Inf
    /\ gen' = 0
    /\ pc' = "ga_generacion"
    /\ UNCHANGED <<grupo, fitnesses, nueva_poblacion, padre1, padre2, cortes, hijo,
                   min_evaluado, varsSweep, varsEval>>

\* lines 178-185, 192
EvaluarGeneracion ==
    /\ pc = "ga_generacion"
    /\ gen < Generaciones
    /\ fitnesses' = [k \in DOMAIN poblacion |-> Fitness(poblacion[k])]
    /\ LET indice_mejor == IndiceMejor(fitnesses')
           fitness_actual == fitnesses'[indice_mejor]
       IN  IF Mejora(fitness_actual, mejor_fitness)
           THEN /\ mejor_fitness' = fitness_actual
                /\ mejor_individuo' = poblacion[indice_mejor]
           ELSE UNCHANGED <<mejor_fitness, mejor_individuo>>
    /\ min_evaluado' = MinInf(Minimo(fitnesses'), min_evaluado)
    /\ nueva_poblacion' = <<>>
    /\ pc' = "ga_reproducir"
    /\ UNCHANGED <<grupo, poblacion, gen, padre1, padre2, cortes, hijo,
                   varsSweep, varsEval>>

\* lines 193-195
SeleccionarPadres ==
    /\ pc = "ga_reproducir"
    /\ Len(nueva_poblacion) < TamPoblacion
    /\ \E s1 \in SeleccionPorTorneo(poblacion, fitnesses) : padre1' = DeepCopy(s1, 1)
    /\ \E s2 \in SeleccionPorTorneo(poblacion, fitnesses) : padre2' = DeepCopy(s2, 2)
    /\ pc' = "ga_cruce"
    /\ UNCHANGED <<grupo, poblacion, fitnesses, mejor_individuo, mejor_fitness, gen,
                   nueva_poblacion, cortes, hijo, min_evaluado, varsSweep, varsEval>>

\* lines 196-197
Cruzar ==
    /\ pc = "ga_cruce"
    /\ \E r \in Azar : r < TasaCruce
    /\ \E c \in Cortes(Len(padre1)) :
           /\ cortes' = c
           /\ hijo' = CruceOrdenado(padre1, padre2, c[1], c[2])
    /\ pc' = "ga_mutacion"
    /\ UNCHANGED <<grupo, poblacion, fitnesses, mejor_individuo, mejor_fitness, gen,
                   nueva_poblacion, padre1, padre2, min_evaluado, varsSweep, varsEval>>

\* lines 196-197, 149: random.sample(range(tamano), 2) raises ValueError
\* when tamano < 2
CruzarFalla ==
    /\ pc = "ga_cruce"
    /\ \E r \in Azar : r < TasaCruce
    /\ Len(padre1) < 2
    /\ pc' = "ga_error"
    /\ UNCHANGED <<varsGA, varsSweep, varsEval>>

\* lines 196, 198-199
Clonar ==
    /\ pc = "ga_cruce"
    /\ \E r \in Azar : ~(r < TasaCruce)
    /\ hijo' = padre1
    /\ pc' = "ga_mutacion"
    /\ UNCHANGED <<grupo, poblacion, fitnesses, mejor_individuo, mejor_fitness, gen,
                   nueva_poblacion, padre1, padre2, cortes, min_evaluado,
                   varsSweep, varsEval>>

\* lines 200-201
Mutar ==
    /\ pc = "ga_mutacion"
    /\ \E m \in MutacionIntercambio(hijo) :
           nueva_poblacion' = Append(nueva_poblacion, Ids(m))
    /\ padre1' = <<>>
    /\ padre2' = <<>>
    /\ cortes' = <<>>
    /\ hijo' = <<>>
    /\ pc' = "ga_reproducir"
    /\ UNCHANGED <<grupo, poblacion, fitnesses, mejor_individuo, mejor_fitness, gen,
                   min_evaluado, varsSweep, varsEval>>

\* line 202 and the next iteration of line 178
ReemplazarPoblacion ==
    /\ pc = "ga_reproducir"
    /\ Len(nueva_poblacion) = TamPoblacion
    /\ poblacion' = nueva_poblacion
    /\ gen' = gen + 1
    /\ pc' = "ga_generacion"
    /\ UNCHANGED <<grupo, fitnesses, mejor_individuo, mejor_fitness, nueva_poblacion,
                   padre1, padre2, cortes, hijo, min_evaluado, varsSweep, varsEval>>

\* line 204
Devolver ==
    /\ pc = "ga_generacion"
    /\ gen = Generaciones
    /\ pc' = "ga_fin"
    /\ UNCHANGED <<varsGA, varsSweep, varsEval>>

----------------------------------------------------------------------------
(* Idle values of the variables of the functions a specification does not run *)

SweepInactivo ==
    /\ clientes = <<>>
    /\ capacidad_vehiculo = 0
    /\ clientes_ordenados = <<>>
    /\ por_agrupar = <<>>
    /\ grupos = <<>>
    /\ grupo_actual = <<>>
    /\ capacidad_actual = 0

EvalInactivo ==
    /\ ruta = <<>>
    /\ por_visitar = <<>>
    /\ distancia_total = 0
    /\ tiempo_actual = 0
    /\ penalizacion = 0
    /\ detalles = <<>>
    /\ punto_anterior = Deposito
    /\ fitness = Inf

GAInactivo ==
    /\ grupo = <<>>
    /\ poblacion = <<>>
    /\ fitnesses = <<>>
    /\ mejor_individuo = <<0>>
    /\ mejor_fitness = Inf
    /\ gen = 0
    /\ nueva_poblacion = <<>>
    /\ padre1 = <<>>
    /\ padre2 = <<>>
    /\ cortes = <<>>
    /\ hijo = <<>>
    /\ min_evaluado = Inf

----------------------------------------------------------------------------
(* Specification of agrupar_clientes *)

InitSweep ==
    /\ pc = "sweep_inicio"
    /\ clientes \in EntradasSweep
    /\ capacidad_vehiculo \in 1..MaxCapacidad
    /\ clientes_ordenados = <<>>
    /\ por_agrupar = <<>>
    /\ grupos = <<>>
    /\ grupo_actual = <<>>
    /\ capacidad_actual = 0
    /\ EvalInactivo
    /\ GAInactivo

NextSweep ==
    \/ Ordenar
    \/ AgregarAlGrupo
    \/ CerrarGrupo
    \/ EmitirUltimoGrupo
    \/ DevolverSinUltimo

SpecSweep == InitSweep /\ [][NextSweep]_vars

----------------------------------------------------------------------------
(* Claims about agrupar_clientes *)

Demanda(g) == Suma([k \in DOMAIN g |-> g[k].demanda])

\* C1: when agrupar_clientes returns, every input customer occurs exactly
\* once in the concatenation of the returned clusters and the clusters hold
\* nothing else: they are pairwise disjoint and cover the input.
C1_Particion ==
    pc = "sweep_fin" =>
        /\ Len(Aplanar(grupos)) = Len(clientes)
        /\ \A k \in DOMAIN clientes : Veces(clientes[k], Aplanar(grupos)) = 1

\* C1 witness: a returned clustering of three customers in at least two clusters.
C1_Witness ==
    /\ pc = "sweep_fin"
    /\ Len(clientes) = 3
    /\ Len(grupos) >= 2
    /\ \E k \in DOMAIN grupos : Len(grupos[k]) >= 2

\* C2: when agrupar_clientes returns, every cluster has total demand at most
\* the capacity unless it is a single customer whose own demand exceeds the
\* capacity, and a customer whose demand exceeds the capacity is alone in
\* its cluster.
C2_Capacidad ==
    pc = "sweep_fin" =>
        \A k \in DOMAIN grupos :
            /\ \/ Demanda(grupos[k]) <= capacidad_vehiculo
               \/ /\ Len(grupos[k]) = 1
                  /\ grupos[k][1].demanda > capacidad_vehiculo
            /\ \A j \in DOMAIN grupos[k] :
                   grupos[k][j].demanda > capacidad_vehiculo => Len(grupos[k]) = 1

\* C2 witness: a returned clustering with an over-capacity customer alone and
\* another cluster of two customers filled within the capacity.
C2_Witness ==
    /\ pc = "sweep_fin"
    /\ \E k \in DOMAIN grupos :
           Len(grupos[k]) = 1 /\ grupos[k][1].demanda > capacidad_vehiculo
    /\ \E k \in DOMAIN grupos :
           Len(grupos[k]) = 2 /\ Demanda(grupos[k]) <= capacidad_vehiculo

\* C3 (as claimed): for a non-empty input, every cluster agrupar_clientes
\* returns is non-empty.
C3_GruposNoVacios ==
    (pc = "sweep_fin" /\ clientes /= <<>>) =>
        \A k \in DOMAIN grupos : grupos[k] /= <<>>

----------------------------------------------------------------------------
(* Specification of evaluar_ruta *)

InitEval ==
    /\ pc = "eval_inicio"
    /\ ruta \in RutasEval
    /\ por_visitar = <<>>
    /\ distancia_total = 0
    /\ tiempo_actual = 0
    /\ penalizacion = 0
    /\ detalles = <<>>
    /\ punto_anterior = Deposito
    /\ fitness = Inf
    /\ SweepInactivo
    /\ GAInactivo

NextEval ==
    \/ IniciarEvaluacion
    \/ VisitarCliente
    \/ RegresarAlDeposito

SpecEval == InitEval /\ [][NextEval]_vars

----------------------------------------------------------------------------
(* Claims about evaluar_ruta *)

VentanaValida(c) == c.ventana_inicio <= c.ventana_fin

\* The arrival before any wait adjustment at the customer the loop visits next.
LlegadaCruda == tiempo_actual + distancia(punto_anterior, Head(por_visitar))

Visitando == pc = "eval_bucle" /\ por_visitar /= <<>>

\* C6: at every customer whose window has ventana_inicio <= ventana_fin the
\* penalty grows by (raw arrival - ventana_fin) * 1000 when the raw arrival
\* exceeds ventana_fin and by 0 otherwise, the penalty starts at 0 and changes
\* nowhere else, and the fitness returned is total distance + total penalty.
C6_Penalizacion ==
    [][ /\ (Visitando /\ VentanaValida(Head(por_visitar))) =>
               penalizacion' - penalizacion =
                   IF LlegadaCruda > Head(por_visitar).ventana_fin
                   THEN (LlegadaCruda - Head(por_visitar).ventana_fin) * 1000
                   ELSE 0
        /\ ~Visitando => (penalizacion' = penalizacion \/ pc = "eval_inicio")
        /\ pc = "eval_inicio" => penalizacion' = 0
        /\ pc' = "eval_fin" => fitness' = distancia_total' + penalizacion'
      ]_vars

\* C6 witness: a finished evaluation of a two-stop route with valid windows
\* where one stop was reached late (penalised) and the other was not.
C6_Witness ==
    /\ pc = "eval_fin"
    /\ Len(ruta) = 2
    /\ \A k \in DOMAIN ruta : VentanaValida(ruta[k])
    /\ \E k \in DOMAIN ruta : detalles[k][2] > ruta[k].ventana_fin
    /\ \E k \in DOMAIN ruta : detalles[k][2] <= ruta[k].ventana_fin
    /\ penalizacion > 0
    /\ fitness = distancia_total + penalizacion

\* C6 without its precondition on the window: the penalty at every customer
\* is decided by the raw arrival.  (Fails for ventana_inicio > ventana_fin,
\* where the program penalises the arrival after the wait.)
C6_SinPrecondicion ==
    [][ Visitando =>
            penalizacion' - penalizacion =
                IF LlegadaCruda > Head(por_visitar).ventana_fin
                THEN (LlegadaCruda - Head(por_visitar).ventana_fin) * 1000
                ELSE 0
      ]_vars

\* C7: at every customer, a raw arrival before ventana_inicio records
\* wait = ventana_inicio - raw arrival and arrival = ventana_inicio, and the
\* vehicle leaves at ventana_inicio; otherwise wait = 0 and arrival = raw
\* arrival.  The schedule returned has one entry per customer in route order
\* and a final depot entry timed at the last effective arrival plus the
\* return leg.
C7_Espera ==
    [][ /\ Visitando =>
            /\ detalles' = Append(detalles,
                   IF LlegadaCruda < Head(por_visitar).ventana_inicio
                   THEN <<Head(por_visitar), Head(por_visitar).ventana_inicio,
                          Head(por_visitar).ventana_inicio - LlegadaCruda>>
                   ELSE <<Head(por_visitar), LlegadaCruda, 0>>)
            /\ tiempo_actual' = detalles'[Len(detalles')][2]
        /\ (pc' = "eval_fin" /\ pc /= "eval_fin") =>
            /\ Len(detalles') = Len(ruta) + 1
            /\ \A k \in DOMAIN ruta : detalles'[k][1] = ruta[k]
            /\ detalles'[Len(ruta) + 1] =
                   <<"Deposito",
                     IF ruta = <<>> THEN DepositoInicio
                     ELSE detalles'[Len(ruta)][2] + distancia(ruta[Len(ruta)], Deposito),
                     0>>
      ]_vars

\* C7 witness: a finished evaluation of a two-stop route where the vehicle
\* waited at one stop and did not wait at the other.
C7_Witness ==
    /\ pc = "eval_fin"
    /\ Len(ruta) = 2
    /\ Len(detalles) = 3
    /\ \E k \in DOMAIN ruta :
           detalles[k][3] > 0 /\ detalles[k][2] = ruta[k].ventana_inicio
    /\ \E k \in DOMAIN ruta : detalles[k][3] = 0
    /\ detalles[3][1] = "Deposito"

----------------------------------------------------------------------------
(* Specification of algoritmo_genetico *)

InitGA ==
    /\ pc = "ga_inicio"
    /\ grupo \in {[k \in 1..n |-> k] : n \in 0..MaxGrupo}
    /\ poblacion = <<>>
    /\ fitnesses = <<>>
    /\ mejor_individuo = <<0>>
    /\ mejor_fitness = Inf
    /\ gen = 0
    /\ nueva_poblacion = <<>>
    /\ padre1 = <<>>
    /\ padre2 = <<>>
    /\ cortes = <<>>
    /\ hijo = <<>>
    /\ min_evaluado = Inf
    /\ SweepInactivo
    /\ EvalInactivo

NextGA ==
    \/ CrearPoblacionInicial
    \/ EvaluarGeneracion
    \/ SeleccionarPadres
    \/ Cruzar
    \/ CruzarFalla
    \/ Clonar
    \/ Mutar
    \/ ReemplazarPoblacion
    \/ Devolver

SpecGA == InitGA /\ [][NextGA]_vars

----------------------------------------------------------------------------
(* Claims about algoritmo_genetico *)

\* The child cruce_ordenado returned is in hijo, before mutacion_intercambio.
TrasCruce == pc = "ga_mutacion" /\ cortes /= <<>>

\* C4 (as claimed): the child cruce_ordenado returns holds, at every position
\* from inicio through fin, the customer parent 1 holds there.
C4_SegmentoPreservado ==
    TrasCruce =>
        \A k \in cortes[1]..cortes[2] : hijo[k + 1].id = padre1[k + 1].id

\* s holds each customer of the cluster exactly once and nothing else.
EsPermutacion(s) ==
    /\ Len(s) = Len(grupo)
    /\ \A k \in DOMAIN grupo : Veces(grupo[k], s) = 1

\* C5: for a cluster of at least 2 customers, every individual of the
\* population, every child of cruce_ordenado, every child of
\* mutacion_intercambio and the best-so-far route once set hold each customer
\* of the cluster exactly once, with no empty slot.
C5_Permutaciones ==
    Len(grupo) >= 2 =>
        /\ \A k \in DOMAIN poblacion : EsPermutacion(poblacion[k])
        /\ \A k \in DOMAIN nueva_poblacion : EsPermutacion(nueva_poblacion[k])
        /\ pc = "ga_mutacion" => EsPermutacion(Ids(hijo))
        /\ mejor_individuo /= <<0>> => EsPermutacion(mejor_individuo)

\* C5 witness: in the second generation of a three-customer cluster, a child
\* of cruce_ordenado that differs from parent 1, after mutated children have
\* been added to the new population.
C5_Witness ==
    /\ Len(grupo) = 3
    /\ gen = 1
    /\ TrasCruce
    /\ Ids(hijo) /= Ids(padre1)
    /\ Len(nueva_poblacion) >= 2
    /\ nueva_poblacion[1] /= nueva_poblacion[2]
    /\ mejor_individuo /= <<0>>

\* C8: the best-so-far fitness never increases; the best-so-far changes only
\* in the evaluation step of a generation, which runs once per generation,
\* and only when the generation's least fitness is strictly below it.
C8_MejoraMonotona ==
    [][ /\ ~Menor(mejor_fitness, mejor_fitness')
        /\ <<mejor_individuo', mejor_fitness'>> /= <<mejor_individuo, mejor_fitness>> =>
               \/ pc = "ga_inicio"
               \/ /\ pc = "ga_generacion" /\ pc' = "ga_reproducir" /\ gen' = gen
                  /\ Menor(Minimo(fitnesses'), mejor_fitness)
                  /\ mejor_fitness' = Minimo(fitnesses')
        /\ (pc' = "ga_generacion" /\ pc = "ga_reproducir") => gen' = gen + 1
      ]_vars

\* C8 witness: the second generation has been evaluated, its least fitness
\* ties the best-so-far, and the snapshot is still the first generation's
\* route, not the tying individual.
C8_Witness ==
    /\ pc = "ga_reproducir"
    /\ gen = 1
    /\ nueva_poblacion = <<>>
    /\ mejor_fitness = Minimo(fitnesses)
    /\ mejor_individuo /= poblacion[IndiceMejor(fitnesses)]

\* C9 (as claimed): for a cluster of zero or one customer algoritmo_genetico
\* never raises an error.
C9_SinError ==
    Len(grupo) <= 1 => pc /= "ga_error"

Evaluada == pc \in {"ga_reproducir", "ga_cruce", "ga_mutacion", "ga_fin"} \/ gen >= 1

C10_Estado ==
    (Len(grupo) >= 2 /\ Evaluada) =>
        /\ mejor_individuo /= <<0>>
        /\ mejor_fitness = Fitness(mejor_individuo)
        /\ mejor_fitness = min_evaluado

C10_Paso ==
    pc \in {"ga_reproducir", "ga_cruce", "ga_mutacion"} =>
        mejor_individuo' = mejor_individuo

\* C10: for a cluster of at least 2 customers, once a generation has been
\* evaluated mejor_fitness is the fitness of mejor_individuo and the least
\* fitness evaluated so far, and the selection, crossover, mutation and
\* replacement steps leave mejor_individuo unchanged.
C10_MejorConsistente == []C10_Estado /\ [][C10_Paso]_vars

\* C10 witness: after the second generation's children were bred, the
\* best-so-far is an individual that is no longer in the population.
C10_Witness ==
    /\ pc = "ga_fin"
    /\ Len(grupo) = 3
    /\ mejor_individuo /= <<0>>
    /\ \A k \in DOMAIN poblacion : poblacion[k] /= mejor_individuo
    /\ mejor_fitness = min_evaluado

============================================================================
